---- MODULE Spec2Model ----
(***************************************************************************)
(* Model of the go-scim MongoDB database adapter (mongoDB in               *)
(* server/args/rabbit.go, package mongo) and of the property filter index  *)
(* (buildIndex in protocol/stage/filter.go).                               *)
(*                                                                         *)
(* The MongoDB collection is a sequence of documents in insertion order.   *)
(* Every driver call (InsertOne, CountDocuments, FindOne, ...) is atomic   *)
(* and may fail with the context's cancellation or with an i/o error, in   *)
(* which case it has no effect on the collection.  The unique indexes that *)
(* DB() asks for (id and userName, both uniqueness=server) are taken to    *)
(* exist.                                                                  *)
(***************************************************************************)
EXTENDS Integers, Sequences, FiniteSets, TLC

VARIABLES store, last, w, c, bi, dbopt, resp, hist, pf, rb, fr

vars == <<store, last, w, c, bi, dbopt, resp, hist, pf, rb, fr>>

\* the state of the database and of its callers
dbVars == <<store, last, w, c, bi, dbopt, resp, hist>>

\* the state outside the database calls, the writers, the creators and the
\* filter index
extVars == <<dbopt, resp, hist, pf, rb, fr>>

(***************************************************************************)
(* Bounds                                                                  *)
(***************************************************************************)
MaxId == 2
MaxVer == 2
MaxName == 2
MaxDocs == 2
MaxFilters == 3
MaxOrder == 1
MaxTypes == 2
MaxEmails == 2
MaxAttempts == 4
MaxPath == 3
MaxPort == 10
MaxProj == 2
MaxStart == 2
MaxCount == 2

Ids == 1..MaxId
Versions == 1..MaxVer
Names == 1..MaxName

\* a stored SCIM resource: id, meta.version and its content, the userName
\* (uniqueness=server)
Docs == [id : Ids, version : Versions, uname : Names]

NoDoc == [id |-> 0, version |-> 0, uname |-> 0]

\* outcome of the context / transport of one driver call
Faults == {"none", "cancelled", "io"}

(***************************************************************************)
(* SCIM filters and their MongoDB translation                              *)
(***************************************************************************)
NoFilter == [k |-> "none", v |-> 0, x |-> 0]

\* filters a caller may pass to Count and Query
CallerFilters ==
    {[k |-> "invalid", v |-> 0, x |-> 0], [k |-> "all", v |-> 0, x |-> 0]}
        \cup {[k |-> "uname", v |-> n, x |-> 0] : n \in Names}

\* "id eq <id>"
IdFilter(id) == [k |-> "id", v |-> id, x |-> 0]

\* a match on the id alone, whatever the version
IdVersionFilterNoVersion(id, version) == [k |-> "id", v |-> id, x |-> 0]

\* "(id eq <id>) and (meta.version eq <version>)"
IdVersionFilter(id, version) == [k |-> "idver", v |-> id, x |-> version]

\* mongoFilter: compile and transform; fails on a filter that does not compile
mongoFilter(filter) ==
    IF filter.k = "invalid"
    THEN [err |-> "invalidFilter", tf |-> NoFilter]
    ELSE [err |-> "nil", tf |-> filter]

\* whether document d satisfies the transformed filter tf
Matches(tf, d) ==
    CASE tf.k = "all" -> TRUE
      [] tf.k = "uname" -> d.uname = tf.v
      [] tf.k = "id" -> d.id = tf.v
      [] tf.k = "idver" -> d.id = tf.v /\ d.version = tf.x
      [] OTHER -> FALSE

\* the documents of a collection that satisfy tf, in collection order
Matching(tf, coll) == SelectSeq(coll, LAMBDA d : Matches(tf, d))

\* position of the first document satisfying tf, 0 when there is none
FirstMatch(tf, coll) ==
    IF \E i \in 1..Len(coll) : Matches(tf, coll[i])
    THEN CHOOSE i \in 1..Len(coll) :
            /\ Matches(tf, coll[i])
            /\ \A j \in 1..(i - 1) : ~Matches(tf, coll[j])
    ELSE 0

\* the unique indexes on id and userName reject doc next to the documents of
\* coll other than the one at position skip
ViolatesUnique(coll, doc, skip) ==
    \E i \in 1..Len(coll) :
        /\ i # skip
        /\ (coll[i].id = doc.id \/ coll[i].uname = doc.uname)

(***************************************************************************)
(* Driver calls: [err, coll, out]                                          *)
(***************************************************************************)
\* coll.InsertOne
InsertOne(fault, coll, doc) ==
    IF fault # "none" THEN [err |-> fault, coll |-> coll, ior |-> FALSE]
    ELSE IF ViolatesUnique(coll, doc, 0)
         THEN [err |-> "duplicateKey", coll |-> coll, ior |-> FALSE]
         ELSE [err |-> "nil", coll |-> Append(coll, doc), ior |-> TRUE]

\* coll.CountDocuments
CountDocuments(fault, coll, tf) ==
    IF fault # "none" THEN [err |-> fault, n |-> 0]
    ELSE [err |-> "nil", n |-> Len(Matching(tf, coll))]

\* find options on which SetProjection was not called
NoBson == <<[key |-> "-", value |-> -1]>>

\* the fields of doc the backend returns under a projection document: all of
\* them when none is set or it is empty, the listed ones when it includes,
\* the others when it excludes
Project(doc, bson) ==
    IF bson = NoBson \/ bson = <<>> THEN doc
    ELSE LET keys == {bson[i].key : i \in DOMAIN bson}
             include == \E i \in DOMAIN bson : bson[i].value = 1
             kept(key) == (key \in keys) = include
         IN [id |-> IF kept("id") THEN doc.id ELSE 0,
             version |-> IF kept("meta.version") THEN doc.version ELSE 0,
             uname |-> IF kept("userName") THEN doc.uname ELSE 0]

\* coll.FindOne followed by sr.Err()
FindOne(fault, coll, tf, opt) ==
    IF fault # "none" THEN [err |-> fault, doc |-> NoDoc]
    ELSE IF FirstMatch(tf, coll) = 0
         THEN [err |-> "ErrNoDocuments", doc |-> NoDoc]
         ELSE [err |-> "nil",
               doc |-> Project(coll[FirstMatch(tf, coll)], opt.projection)]

\* coll.FindOneAndReplace followed by sr.Err()
FindOneAndReplace(fault, coll, tf, doc) ==
    LET i == FirstMatch(tf, coll) IN
    IF fault # "none" THEN [err |-> fault, coll |-> coll]
    ELSE IF i = 0 THEN [err |-> "ErrNoDocuments", coll |-> coll]
    ELSE IF ViolatesUnique(coll, doc, i)
         THEN [err |-> "duplicateKey", coll |-> coll]
         ELSE [err |-> "nil", coll |-> [coll EXCEPT ![i] = doc]]

\* a FindOneAndDelete that reports the match and leaves the document
FindOneAndDeleteLeavesDocument(fault, coll, tf) ==
    IF fault # "none" THEN [err |-> fault, coll |-> coll]
    ELSE IF FirstMatch(tf, coll) = 0 THEN [err |-> "ErrNoDocuments", coll |-> coll]
    ELSE [err |-> "nil", coll |-> coll]

\* coll.FindOneAndDelete followed by sr.Err()
FindOneAndDelete(fault, coll, tf) ==
    LET i == FirstMatch(tf, coll) IN
    IF fault # "none" THEN [err |-> fault, coll |-> coll]
    ELSE IF i = 0 THEN [err |-> "ErrNoDocuments", coll |-> coll]
    ELSE [err |-> "nil",
          coll |-> [j \in 1..(Len(coll) - 1) |->
                        IF j < i THEN coll[j] ELSE coll[j + 1]]]

(***************************************************************************)
(* Attribute tree and MongoDB persistence paths                            *)
(***************************************************************************)
\* id of the resource type's core schema
SchemaId == "urn:User"

\* sub-attributes by name of every attribute; "" is the super attribute
SubAttributes ==
    [a \in {"", "id", "userName", "name", "name.familyName", "groups",
            "groups.$ref"} |->
        CASE a = "" -> {"id", "userName", "name", "groups"}
          [] a = "name" -> {"familyName"}
          [] a = "groups" -> {"$ref"}
          [] OTHER -> {}]

\* attribute.Path() of the attributes, which also serves as attribute id
AttrPath(parent, name) == IF parent = "" THEN name ELSE parent \o "." \o name

\* metadataHub: the registered MongoPath of the attributes that have one
metadataHub == [a \in {"groups.$ref"} |-> "groups.ref"]

\* SCIM paths as token sequences; a "?" token stands for text that
\* expr.CompilePath rejects, and so does the empty path
Compiles(path) == path # <<>> /\ \A i \in 1..Len(path) : path[i] # "?"

RECURSIVE Walk(_, _)
\* the loop of mongoPathFor: descend from attribute a along the tokens
Walk(a, tokens) ==
    IF tokens = <<>> THEN [ok |-> TRUE, attr |-> a]
    ELSE IF Head(tokens) \in SubAttributes[a]
         THEN Walk(AttrPath(a, Head(tokens)), Tail(tokens))
         ELSE [ok |-> FALSE, attr |-> ""]

\* a mongoPathFor that uses the attribute's own path whatever is registered
mongoPathForNoAlias(path) ==
    IF ~Compiles(path) THEN ""
    ELSE LET cursor == IF Head(path) = SchemaId THEN Tail(path) ELSE path
             r == Walk("", cursor)
         IN IF cursor = <<>> \/ ~r.ok THEN "" ELSE r.attr

mongoPathFor(path) ==
    IF ~Compiles(path) THEN ""
    ELSE LET cursor == IF Head(path) = SchemaId THEN Tail(path) ELSE path
             r == Walk("", cursor)
         IN IF cursor = <<>> THEN ""
            ELSE IF ~r.ok THEN ""
            ELSE IF r.attr \in DOMAIN metadataHub THEN metadataHub[r.attr]
            ELSE r.attr

(***************************************************************************)
(* Sort and pagination                                                     *)
(***************************************************************************)
NoSort == [by |-> <<"-">>, order |-> "-"]
NoPage == [startIndex |-> -1, count |-> -1]
NoOpt == [key |-> "-", dir |-> 0]

\* crud.SortDefault, crud.SortAsc, crud.SortDesc
SortDefault == ""
SortAsc == "ascending"
SortDesc == "descending"

\* sorts a caller may pass to Query
CallerSorts ==
    {NoSort} \cup
    [by : {<<>>, <<"userName">>, <<"bogus">>},
     order : {SortDefault, SortAsc, SortDesc}]

\* paginations a caller may pass to Query
CallerPages == {NoPage} \cup [startIndex : 0..MaxStart, count : 0..MaxCount]

\* a mongoSort that takes an unknown order for ascending
mongoSortUnknownAsAscending(sort) ==
    LET by0 == IF Len(sort.by) > 0 THEN mongoPathFor(sort.by) ELSE ""
        by == IF by0 = "" THEN "_id" ELSE by0
    IN CASE sort.order = SortDesc -> [key |-> by, dir |-> -1]
         [] OTHER -> [key |-> by, dir |-> 1]

mongoSort(sort) ==
    LET by0 == IF Len(sort.by) > 0 THEN mongoPathFor(sort.by) ELSE ""
        by == IF by0 = "" THEN "_id" ELSE by0
    IN CASE sort.order \in {SortAsc, SortDefault} -> [key |-> by, dir |-> 1]
         [] sort.order = SortDesc -> [key |-> by, dir |-> -1]
         [] OTHER -> [key |-> "panic", dir |-> 0]

mongoPagination(pagination) ==
    [skip |-> pagination.startIndex - 1, limit |-> pagination.count]

\* value of the document's field named by a persistence path
Field(d, key) ==
    CASE key = "userName" -> d.uname
      [] key = "id" -> d.id
      [] OTHER -> 0

Reverse(s) == [i \in 1..Len(s) |-> s[Len(s) + 1 - i]]

RECURSIVE SortBy(_, _, _)
\* s ordered by the field key in direction dir, ties in the order of s
SortBy(s, key, dir) ==
    IF s = <<>> THEN <<>>
    ELSE LET i == CHOOSE i \in 1..Len(s) :
                    \A j \in 1..Len(s) :
                        \/ dir * Field(s[i], key) < dir * Field(s[j], key)
                        \/ Field(s[i], key) = Field(s[j], key) /\ i <= j
         IN <<s[i]>> \o SortBy([j \in 1..(Len(s) - 1) |->
                                    IF j < i THEN s[j] ELSE s[j + 1]], key, dir)

\* the order in which the server returns the documents of s: the internal
\* _id grows with insertion, a replaced document keeps its _id
Sorted(s, srt) ==
    IF srt = NoOpt THEN s
    ELSE IF srt.key = "_id" THEN (IF srt.dir = 1 THEN s ELSE Reverse(s))
    ELSE SortBy(s, srt.key, srt.dir)

\* the server's skip and limit: a limit of 0 is no limit, a negative limit
\* is its absolute value
SkipLimit(s, skip, limit) ==
    LET rest == IF skip >= Len(s) THEN <<>> ELSE SubSeq(s, skip + 1, Len(s))
        lim == IF limit < 0 THEN 0 - limit ELSE limit
    IN IF lim = 0 \/ lim >= Len(rest) THEN rest ELSE SubSeq(rest, 1, lim)

\* coll.Find and the cursor's iteration; opt: [srt, paged, skip, limit]
Find(fault, coll, tf, opt) ==
    IF fault # "none" THEN [err |-> fault, out |-> <<>>]
    ELSE IF opt.paged /\ opt.skip < 0 THEN [err |-> "badValue", out |-> <<>>]
    ELSE LET s == Sorted(Matching(tf, coll), opt.srt)
             page == IF opt.paged THEN SkipLimit(s, opt.skip, opt.limit) ELSE s
         IN [err |-> "nil",
             out |-> [i \in 1..Len(page) |-> Project(page[i], opt.projection)]]

(***************************************************************************)
(* Projection                                                              *)
(***************************************************************************)
\* a nil *crud.Projection
NoProjection == [attributes |-> <<<<"-">>>>, excluded |-> <<<<"-">>>>]

\* paths a caller may name in a projection
ProjPaths ==
    {<<"userName">>, <<SchemaId, "userName">>, <<"id">>, <<"groups", "$ref">>,
     <<"bogus">>}

\* the sequences over S of at most n elements
SeqsUpTo(S, n) == UNION {[1..k -> S] : k \in 0..n}

\* the projections a caller may pass
Projections ==
    [attributes : SeqsUpTo(ProjPaths, MaxProj), excluded : SeqsUpTo(ProjPaths, MaxProj)]

RECURSIVE ProjectionEntries(_, _)
\* the loop of mongoProjection: one entry for every path that resolves
ProjectionEntries(paths, value) ==
    IF paths = <<>> THEN <<>>
    ELSE LET mp == mongoPathFor(Head(paths))
         IN (IF Len(mp) > 0 THEN <<[key |-> mp, value |-> value]>> ELSE <<>>)
                \o ProjectionEntries(Tail(paths), value)

mongoProjection(projection) ==
    IF Len(projection.attributes) > 0
    THEN ProjectionEntries(projection.attributes, 1)
    ELSE IF Len(projection.excluded) > 0
         THEN ProjectionEntries(projection.attributes, 0)
         ELSE <<>>

(***************************************************************************)
(* The methods of mongoDB: [err, coll, out, n]                             *)
(***************************************************************************)
\* the error of Get in place of the one for a failed match
errPreconditionAsNotFound == "notFound"

errPrecondition == "preCondition"

Insert(fault, coll, resource) ==
    LET r == InsertOne(fault, coll, resource)
    IN [err |-> "nil", coll |-> r.coll, out |-> <<>>, n |-> 0]

Count(fault, coll, filter) ==
    LET f == mongoFilter(filter)
        r == CountDocuments(fault, coll, f.tf)
    IN IF f.err # "nil" THEN [err |-> f.err, coll |-> coll, out |-> <<>>, n |-> 0]
       ELSE [err |-> "nil", coll |-> coll, out |-> <<>>, n |-> r.n]

\* a Get that takes an empty result for a resource
GetNoDocumentsAsNil(fault, coll, dbo, id, projection) ==
    LET sr == FindOne(fault, coll, mongoFilter(IdFilter(id)).tf,
                      [projection |-> NoBson])
    IN IF sr.err # "nil" /\ sr.err # "ErrNoDocuments"
       THEN [err |-> sr.err, coll |-> coll, out |-> <<>>, n |-> 0, proj |-> NoBson]
       ELSE [err |-> "nil", coll |-> coll, out |-> <<sr.doc>>, n |-> 0,
             proj |-> NoBson]

\* dbo is d.opt; proj is the projection set on the find options
Get(fault, coll, dbo, id, projection) ==
    LET opt == [projection |-> IF ~dbo.ignoreProjection /\ projection # NoProjection
                               THEN mongoProjection(projection) ELSE NoBson]
        f == mongoFilter(IdFilter(id))
        sr == FindOne(fault, coll, f.tf, opt)
    IN IF f.err # "nil"
       THEN [err |-> f.err, coll |-> coll, out |-> <<>>, n |-> 0,
             proj |-> opt.projection]
       ELSE IF sr.err # "nil"
            THEN [err |-> IF sr.err = "ErrNoDocuments" THEN "notFound" ELSE sr.err,
                  coll |-> coll, out |-> <<>>, n |-> 0, proj |-> opt.projection]
            ELSE [err |-> "nil", coll |-> coll, out |-> <<sr.doc>>, n |-> 0,
                  proj |-> opt.projection]

\* a Replace that takes a failed match for a success
ReplaceNoDocumentsAsNil(fault, coll, resource, oldVersion) ==
    LET sr == FindOneAndReplace(fault, coll,
                  mongoFilter(IdVersionFilter(resource.id, oldVersion)).tf, resource)
    IN IF sr.err # "nil" /\ sr.err # "ErrNoDocuments"
       THEN [err |-> sr.err, coll |-> sr.coll, out |-> <<>>, n |-> 0]
       ELSE [err |-> "nil", coll |-> sr.coll, out |-> <<>>, n |-> 0]

Replace(fault, coll, resource, oldVersion) ==
    LET f == mongoFilter(IdVersionFilter(resource.id, oldVersion))
        sr == FindOneAndReplace(fault, coll, f.tf, resource)
    IN IF f.err # "nil" THEN [err |-> f.err, coll |-> coll, out |-> <<>>, n |-> 0]
       ELSE IF sr.err # "nil"
            THEN [err |-> IF sr.err = "ErrNoDocuments" THEN errPrecondition ELSE sr.err,
                  coll |-> sr.coll, out |-> <<>>, n |-> 0]
            ELSE [err |-> "nil", coll |-> sr.coll, out |-> <<>>, n |-> 0]

\* a Delete that matches on the id alone
DeleteById(fault, coll, resource) ==
    LET f == mongoFilter(IdFilter(resource.id))
        sr == FindOneAndDelete(fault, coll, f.tf)
    IN IF sr.err # "nil"
       THEN [err |-> IF sr.err = "ErrNoDocuments" THEN errPrecondition ELSE sr.err,
             coll |-> sr.coll, out |-> <<>>, n |-> 0]
       ELSE [err |-> "nil", coll |-> sr.coll, out |-> <<>>, n |-> 0]

Delete(fault, coll, resource) ==
    LET f == mongoFilter(IdVersionFilter(resource.id, resource.version))
        sr == FindOneAndDelete(fault, coll, f.tf)
    IN IF f.err # "nil" THEN [err |-> f.err, coll |-> coll, out |-> <<>>, n |-> 0]
       ELSE IF sr.err # "nil"
            THEN [err |-> IF sr.err = "ErrNoDocuments" THEN errPrecondition ELSE sr.err,
                  coll |-> sr.coll, out |-> <<>>, n |-> 0]
            ELSE [err |-> "nil", coll |-> sr.coll, out |-> <<>>, n |-> 0]

\* a Query that sets the projection whatever the options of the database say
QueryAlwaysProjects(fault, coll, dbo, filter, sort, pagination, projection) ==
    LET f == mongoFilter(filter)
        srt == IF sort # NoSort THEN mongoSort(sort) ELSE NoOpt
        pg == IF pagination # NoPage THEN mongoPagination(pagination)
              ELSE [skip |-> 0, limit |-> 0]
        prj == IF projection # NoProjection
               THEN mongoProjection(projection) ELSE NoBson
        cur == Find(fault, coll, f.tf,
                    [srt |-> srt, paged |-> pagination # NoPage,
                     skip |-> pg.skip, limit |-> pg.limit, projection |-> prj])
    IN IF f.err # "nil"
       THEN [err |-> f.err, coll |-> coll, out |-> <<>>, n |-> 0, proj |-> NoBson]
       ELSE IF srt.key = "panic"
            THEN [err |-> "panic", coll |-> coll, out |-> <<>>, n |-> 0,
                  proj |-> NoBson]
            ELSE [err |-> cur.err, coll |-> coll, out |-> cur.out, n |-> 0,
                  proj |-> prj]

Query(fault, coll, dbo, filter, sort, pagination, projection) ==
    LET f == mongoFilter(filter)
        srt == IF sort # NoSort THEN mongoSort(sort) ELSE NoOpt
        pg == IF pagination # NoPage THEN mongoPagination(pagination)
              ELSE [skip |-> 0, limit |-> 0]
        prj == IF ~dbo.ignoreProjection /\ projection # NoProjection
               THEN mongoProjection(projection) ELSE NoBson
        cur == Find(fault, coll, f.tf,
                    [srt |-> srt, paged |-> pagination # NoPage,
                     skip |-> pg.skip, limit |-> pg.limit, projection |-> prj])
    IN IF f.err # "nil"
       THEN [err |-> f.err, coll |-> coll, out |-> <<>>, n |-> 0, proj |-> NoBson]
       ELSE IF srt.key = "panic"
            THEN [err |-> "panic", coll |-> coll, out |-> <<>>, n |-> 0,
                  proj |-> NoBson]
            ELSE [err |-> cur.err, coll |-> coll, out |-> cur.out, n |-> 0,
                  proj |-> prj]

(***************************************************************************)
(* The database under arbitrary calls                                      *)
(***************************************************************************)
NoCall ==
    [op |-> "none", doc |-> NoDoc, ver |-> 0, flt |-> NoFilter, srt |-> NoSort,
     pag |-> NoPage, fault |-> "none", pre |-> <<>>, err |-> "nil", out |-> <<>>,
     n |-> 0]

\* perform a call: the collection takes the method's effect and the call,
\* its arguments, the collection before it and its results are recorded
Call(call, r) ==
    /\ Len(r.coll) <= MaxDocs
    /\ store' = r.coll
    /\ last' = [call EXCEPT !.pre = store, !.err = r.err, !.out = r.out, !.n = r.n]
    /\ UNCHANGED <<w, c, bi, extVars>>

DoInsert ==
    /\ last = NoCall
    /\ \E resource \in Docs, fault \in Faults :
           Call([NoCall EXCEPT !.op = "Insert", !.doc = resource, !.fault = fault],
                Insert(fault, store, resource))

DoCount ==
    /\ last = NoCall
    /\ \E filter \in CallerFilters, fault \in Faults :
           Call([NoCall EXCEPT !.op = "Count", !.flt = filter, !.fault = fault],
                Count(fault, store, filter))

DoGet ==
    /\ last = NoCall
    /\ \E id \in Ids, fault \in Faults :
           Call([NoCall EXCEPT !.op = "Get", !.doc = [NoDoc EXCEPT !.id = id],
                               !.fault = fault],
                Get(fault, store, dbopt, id, NoProjection))

DoReplace ==
    /\ last = NoCall
    /\ \E resource \in Docs, oldVersion \in Versions, fault \in Faults :
           Call([NoCall EXCEPT !.op = "Replace", !.doc = resource, !.ver = oldVersion,
                               !.fault = fault],
                Replace(fault, store, resource, oldVersion))

DoDelete ==
    /\ last = NoCall
    /\ \E resource \in Docs, fault \in Faults :
           Call([NoCall EXCEPT !.op = "Delete", !.doc = resource, !.fault = fault],
                Delete(fault, store, resource))

DoQuery ==
    /\ last = NoCall
    /\ \E filter \in CallerFilters, sort \in CallerSorts, pagination \in CallerPages,
          fault \in Faults :
           Call([NoCall EXCEPT !.op = "Query", !.flt = filter, !.srt = sort,
                               !.pag = pagination, !.fault = fault],
                Query(fault, store, dbopt, filter, sort, pagination, NoProjection))

\* Options(): projections are not ignored
Options == [ignoreProjection |-> FALSE]

IgnoreProjection(opt) == [opt EXCEPT !.ignoreProjection = TRUE]

\* nothing but the database, built with Options(), is in use
ExtIdle ==
    /\ dbopt = Options
    /\ resp = <<>>
    /\ hist = <<>>
    /\ pf = <<>>
    /\ rb = <<>>
    /\ fr = <<>>

Init ==
    /\ ExtIdle
    /\ store = <<>>
    /\ last = NoCall
    /\ w = <<>>
    /\ c = <<>>
    /\ bi = <<>>

\* the caller takes the results of the call
Return ==
    /\ last # NoCall
    /\ last' = NoCall
    /\ UNCHANGED <<store, w, c, bi, extVars>>

Next ==
    DoInsert \/ DoCount \/ DoGet \/ DoReplace \/ DoDelete \/ DoQuery \/ Return

Spec == Init /\ [][Next]_vars

(***************************************************************************)
(* Two writers of the first stored resource: each reads it with Get and    *)
(* then replaces it with Replace(newResource, version read)                *)
(***************************************************************************)
Writers == {1, 2}

\* the collections the unique indexes allow
Stores ==
    {s \in UNION {[1..n -> Docs] : n \in 0..MaxDocs} :
        \A i, j \in 1..Len(s) :
            i # j => (s[i].id # s[j].id /\ s[i].uname # s[j].uname)}

Idle == [pc |-> "start", read |-> NoDoc, seen |-> 0, new |-> NoDoc,
         fault |-> "none", err |-> "nil", at |-> 0]

\* number of writers whose Replace has returned
Replaced == Cardinality({q \in Writers : w[q].pc = "done"})

WriterGet(p) ==
    /\ w[p].pc = "start"
    /\ \E fault \in Faults :
        LET r == Get(fault, store, dbopt, store[1].id, NoProjection)
        IN w' = [w EXCEPT ![p] =
                    IF r.err = "nil"
                    THEN [Idle EXCEPT !.pc = "read", !.read = r.out[1],
                                      !.seen = Replaced]
                    ELSE [Idle EXCEPT !.pc = "failed", !.err = r.err]]
    /\ UNCHANGED <<store, last, c, bi, extVars>>

WriterReplace(p) ==
    /\ w[p].pc = "read"
    /\ \E new \in Docs, fault \in Faults :
        /\ new.id = w[p].read.id
        /\ LET r == Replace(fault, store, new, w[p].read.version)
           IN /\ store' = r.coll
              /\ w' = [w EXCEPT ![p] = [@ EXCEPT !.pc = "done", !.new = new,
                                                 !.fault = fault, !.err = r.err,
                                                 !.at = Replaced + 1]]
    /\ UNCHANGED <<last, c, bi, extVars>>

InitW ==
    /\ ExtIdle
    /\ store \in {s \in Stores : 1 <= Len(s) /\ Len(s) <= 2}
    /\ last = NoCall
    /\ w = [p \in Writers |-> Idle]
    /\ c = <<>>
    /\ bi = <<>>

NextW == \E p \in Writers : WriterGet(p) \/ WriterReplace(p)

SpecW == InitW /\ [][NextW]_vars

(***************************************************************************)
(* Two Create requests: the uniqueness filter counts the resources that    *)
(* hold the userName, then the resource is inserted                        *)
(***************************************************************************)
Creators == {1, 2}

NotStarted == [pc |-> "start", doc |-> NoDoc, res |-> "-"]

\* the ids no stored resource and no request in progress has
FreshIds ==
    {id \in Ids : /\ \A i \in 1..Len(store) : store[i].id # id
                  /\ \A q \in Creators : c[q].doc.id # id}

\* the @Unique filter: a count query on the userName, non-zero rejects
CreateCheckUnique(p) ==
    /\ c[p].pc = "start"
    /\ \E id \in FreshIds, uname \in Names, fault \in Faults :
        LET doc == [id |-> id, version |-> 1, uname |-> uname]
            r == Count(fault, store, [k |-> "uname", v |-> uname, x |-> 0])
        IN c' = [c EXCEPT ![p] =
                    IF r.err # "nil"
                    THEN [pc |-> "done", doc |-> doc, res |-> r.err]
                    ELSE IF r.n > 0
                         THEN [pc |-> "done", doc |-> doc, res |-> "uniqueness"]
                         ELSE [pc |-> "checked", doc |-> doc, res |-> "-"]]
    /\ UNCHANGED <<store, last, w, bi, extVars>>

\* the insert that ends a Create: its error, if any, is the request's
CreateInsert(p) ==
    /\ c[p].pc = "checked"
    /\ \E fault \in Faults :
        LET r == Insert(fault, store, c[p].doc)
        IN /\ store' = r.coll
           /\ c' = [c EXCEPT ![p] = [@ EXCEPT !.pc = "done", !.res = r.err]]
    /\ UNCHANGED <<last, w, bi, extVars>>

InitC ==
    /\ ExtIdle
    /\ store \in {s \in Stores : Len(s) < MaxDocs}
    /\ last = NoCall
    /\ w = <<>>
    /\ c = [p \in Creators |-> NotStarted]
    /\ bi = <<>>

NextC == \E p \in Creators : CreateCheckUnique(p) \/ CreateInsert(p)

SpecC == InitC /\ [][NextC]_vars

(***************************************************************************)
(* buildIndex: the sorted property filters of every attribute id            *)
(***************************************************************************)
\* attribute objects (pointers) and the ids they may carry: the first is
\* userName, the second another type's userName or emails
AttrPtrs == {1, 2}
AttrIds == {"userName", "emails"}

\* a property filter: its Order() and the attributes it Supports
Filters == [order : 0..MaxOrder, supports : SUBSET AttrPtrs]

\* the orderings in which a map of these keys may be iterated
Iterations(keys) ==
    {it \in [1..Cardinality(keys) -> keys] :
        \A i, j \in 1..Cardinality(keys) : i # j => it[i] # it[j]}

\* the set of unique derived attributes of the resource types
DerivedAttributes(resourceTypes) ==
    UNION {resourceTypes[i] : i \in 1..Len(resourceTypes)}

\* index[attribute]: the filters (positions in the filters slice) that support
\* the attribute, in slice order
Supported(filters, attribute) ==
    SelectSeq([i \in 1..Len(filters) |-> i],
              LAMBDA i : attribute \in filters[i].supports)

\* the comparison of the insertion sort
OutOfOrderOrEqual(a, b) == a >= b

OutOfOrder(a, b) == a > b

\* an exchange that loses the element at position i
SwapOverwrite(s, i, j) == [s EXCEPT ![i] = s[j]]

\* exchange the elements at positions i and j
Swap(s, i, j) == [s EXCEPT ![i] = s[j], ![j] = s[i]]

RECURSIVE SortInner(_, _)
\* for j := i; j > 0; j--, on the slices st.orders and st.filters (the
\* code's index j is position j + 1 here)
SortInner(st, j) ==
    IF j <= 0 THEN st
    ELSE SortInner(IF OutOfOrder(st.orders[j], st.orders[j + 1])
                   THEN [orders |-> Swap(st.orders, j, j + 1),
                         filters |-> Swap(st.filters, j, j + 1)]
                   ELSE st,
                   j - 1)

RECURSIVE SortOuter(_, _)
\* for i := 1; i < len(orders); i++
SortOuter(st, i) ==
    IF i >= Len(st.orders) THEN st ELSE SortOuter(SortInner(st, i), i + 1)

\* the list stored for an attribute: sorted when it has more than one filter
SortFilters(filters, supported) ==
    IF Len(supported) > 1
    THEN SortOuter([orders |-> [i \in 1..Len(supported) |->
                                    filters[supported[i]].order],
                    filters |-> supported], 1).filters
    ELSE supported

RECURSIVE AssignResult(_, _, _, _)
\* result[attribute.Id] = filters for the attributes in iteration order it
AssignResult(result, it, attrId, filters) ==
    IF it = <<>> THEN result
    ELSE LET id == attrId[Head(it)]
             list == SortFilters(filters, Supported(filters, Head(it)))
         IN AssignResult([k \in DOMAIN result \cup {id} |->
                             IF k = id THEN list ELSE result[k]],
                         Tail(it), attrId, filters)

\* buildIndex under the iteration order it of its index map
buildIndex(resourceTypes, filters, attrId, it) ==
    AssignResult(<<>>, it, attrId, filters)

\* the keys of buildIndex's index map: the attributes some filter supports
IndexKeys(resourceTypes, filters) ==
    {a \in DerivedAttributes(resourceTypes) : Supported(filters, a) # <<>>}

BuildIndex ==
    /\ bi.pc = "input"
    /\ \E it \in Iterations(IndexKeys(bi.rts, bi.filters)) :
        bi' = [bi EXCEPT !.pc = "built",
                         !.result = buildIndex(bi.rts, bi.filters, bi.attrId, it)]
    /\ UNCHANGED <<store, last, w, c, extVars>>

InitI ==
    /\ ExtIdle
    /\ store = <<>>
    /\ last = NoCall
    /\ w = <<>>
    /\ c = <<>>
    /\ bi \in [pc : {"input"},
               attrId : {f \in [AttrPtrs -> AttrIds] : f[1] = "userName"},
               rts : SeqsUpTo(SUBSET AttrPtrs \ {{}}, MaxTypes),
               filters : SeqsUpTo(Filters, MaxFilters),
               result : {<<>>}]

NextI == BuildIndex

SpecI == InitI /\ [][NextI]_vars

(***************************************************************************)
(* Reads with a projection, and GetService.GetResource, over a database    *)
(* built with or without IgnoreProjection                                  *)
(***************************************************************************)
\* the projections of a read request
CallerProjections ==
    {NoProjection}
        \cup [attributes : {<<>>, <<<<"userName">>>>, <<<<"bogus">>>>},
              excluded : {<<>>, <<<<"userName">>>>}]

\* resource.Location(): the resource's address, empty when the resource
\* carries no id
Location(resource) == IF resource.id = 0 THEN <<>> ELSE <<"Users", resource.id>>

\* resource.Version()
Version(resource) == resource.version

\* a nil *GetResponse
NoResponse == [resource |-> NoDoc, location |-> <<"-">>, version |-> -1]

\* a GetResource that answers a failed Get with an empty response and no error
GetResourceSwallowsError(fault, coll, dbo, request) ==
    LET r == Get(fault, coll, dbo, request.resourceID, request.projection)
    IN IF r.err # "nil"
       THEN [response |-> [resource |-> NoDoc, location |-> Location(NoDoc),
                           version |-> Version(NoDoc)],
             err |-> "nil", coll |-> r.coll]
       ELSE [response |-> [resource |-> r.out[1], location |-> Location(r.out[1]),
                           version |-> Version(r.out[1])],
             err |-> "nil", coll |-> r.coll]

GetResource(fault, coll, dbo, request) ==
    LET r == Get(fault, coll, dbo, request.resourceID, request.projection)
    IN IF r.err # "nil"
       THEN [response |-> NoResponse, err |-> r.err, coll |-> r.coll]
       ELSE [response |-> [resource |-> r.out[1], location |-> Location(r.out[1]),
                           version |-> Version(r.out[1])],
             err |-> "nil", coll |-> r.coll]

\* no read in progress
NoRead ==
    [op |-> "none", id |-> 0, flt |-> NoFilter, projection |-> NoProjection,
     fault |-> "none", pre |-> <<>>, err |-> "nil", out |-> <<>>,
     proj |-> NoBson, response |-> NoResponse]

ReadGet ==
    /\ resp = NoRead
    /\ \E id \in Ids, projection \in CallerProjections, fault \in Faults :
           LET r == Get(fault, store, dbopt, id, projection)
           IN /\ store' = r.coll
              /\ resp' = [NoRead EXCEPT !.op = "Get", !.id = id,
                                        !.projection = projection, !.fault = fault,
                                        !.pre = store, !.err = r.err,
                                        !.out = r.out, !.proj = r.proj]
    /\ UNCHANGED <<last, w, c, bi, dbopt, hist, pf, rb, fr>>

ReadQuery ==
    /\ resp = NoRead
    /\ \E filter \in CallerFilters, projection \in CallerProjections,
          fault \in Faults :
           LET r == Query(fault, store, dbopt, filter, NoSort, NoPage, projection)
           IN /\ store' = r.coll
              /\ resp' = [NoRead EXCEPT !.op = "Query", !.flt = filter,
                                        !.projection = projection, !.fault = fault,
                                        !.pre = store, !.err = r.err,
                                        !.out = r.out, !.proj = r.proj]
    /\ UNCHANGED <<last, w, c, bi, dbopt, hist, pf, rb, fr>>

ReadGetResource ==
    /\ resp = NoRead
    /\ \E id \in Ids, projection \in CallerProjections, fault \in Faults :
           LET r == GetResource(fault, store, dbopt,
                                [resourceID |-> id, projection |-> projection])
           IN /\ store' = r.coll
              /\ resp' = [NoRead EXCEPT !.op = "GetResource", !.id = id,
                                        !.projection = projection, !.fault = fault,
                                        !.pre = store, !.err = r.err,
                                        !.response = r.response]
    /\ UNCHANGED <<last, w, c, bi, dbopt, hist, pf, rb, fr>>

\* the read returns to its caller
ReadReturn ==
    /\ resp # NoRead
    /\ resp' = NoRead
    /\ UNCHANGED <<store, last, w, c, bi, dbopt, hist, pf, rb, fr>>

InitG ==
    /\ store \in Stores
    /\ last = NoCall
    /\ w = <<>>
    /\ c = <<>>
    /\ bi = <<>>
    /\ dbopt \in {Options, IgnoreProjection(Options)}
    /\ resp = NoRead
    /\ hist = <<>>
    /\ pf = <<>>
    /\ rb = <<>>
    /\ fr = <<>>

NextG == ReadGet \/ ReadQuery \/ ReadGetResource \/ ReadReturn

SpecG == InitG /\ [][NextG]_vars

(***************************************************************************)
(* mongoPathFor and mongoProjection applied to the paths and projections   *)
(* a caller may pass                                                       *)
(***************************************************************************)
\* the steps of a path; "?" is text that does not compile
Tokens ==
    {SchemaId, "id", "userName", "name", "familyName", "groups", "$ref",
     "bogus", "?"}

Paths == SeqsUpTo(Tokens, MaxPath)

ApplyMongoPathFor ==
    /\ pf.pc = "input"
    /\ pf.fn = "mongoPathFor"
    /\ pf' = [pf EXCEPT !.pc = "done", !.mp = mongoPathFor(pf.path)]
    /\ UNCHANGED <<dbVars, rb, fr>>

ApplyMongoProjection ==
    /\ pf.pc = "input"
    /\ pf.fn = "mongoProjection"
    /\ pf' = [pf EXCEPT !.pc = "done", !.bson = mongoProjection(pf.projection)]
    /\ UNCHANGED <<dbVars, rb, fr>>

InitP ==
    /\ store = <<>>
    /\ last = NoCall
    /\ w = <<>>
    /\ c = <<>>
    /\ bi = <<>>
    /\ dbopt = Options
    /\ resp = <<>>
    /\ hist = <<>>
    /\ rb = <<>>
    /\ fr = <<>>
    /\ pf \in [pc : {"input"}, fn : {"mongoPathFor"}, path : Paths,
               projection : {NoProjection}, mp : {""}, bson : {<<>>}]
              \cup
              [pc : {"input"}, fn : {"mongoProjection"}, path : {<<>>},
               projection : Projections, mp : {""}, bson : {<<>>}]

NextP == ApplyMongoPathFor \/ ApplyMongoProjection

SpecP == InitP /\ [][NextP]_vars

(***************************************************************************)
(* Rabbit.Connect: the dial callback under Retry, then the channel         *)
(***************************************************************************)
\* the nil error, the nil connection and the nil channel
NoErr == [kind |-> "nil", at |-> 0]
NoConn == 0
NoChannel == 0

\* what amqp.Dial may answer: a connection, an *amqp.Error with or without
\* Recover, or an error of another type
DialOutcomes == {"ok", "amqpRecoverable", "amqpPermanent", "other"}

\* amqp.Dial at attempt number at: (conn, err)
Dial(outcome, at) ==
    IF outcome = "ok" THEN [conn |-> at, err |-> NoErr]
    ELSE [conn |-> NoConn, err |-> [kind |-> outcome, at |-> at]]

\* a callback that hands a permanent error back to Retry as any other error
CallbackRetriesPermanent(outcome, at, permErr) ==
    LET d == Dial(outcome, at)
    IN IF d.err # NoErr
       THEN [conn |-> d.conn, permErr |-> permErr,
             err |-> [kind |-> "couldNotConnect", at |-> at]]
       ELSE [conn |-> d.conn, permErr |-> permErr, err |-> NoErr]

\* the function passed to Retry: conn and permErr after it, and its error
Callback(outcome, at, permErr) ==
    LET d == Dial(outcome, at)
    IN IF d.err # NoErr
       THEN IF d.err.kind \in {"amqpRecoverable", "amqpPermanent"}
                  /\ d.err.kind = "amqpPermanent"
            THEN [conn |-> d.conn, permErr |-> d.err, err |-> NoErr]
            ELSE [conn |-> d.conn, permErr |-> permErr,
                  err |-> [kind |-> "couldNotConnect", at |-> at]]
       ELSE [conn |-> d.conn, permErr |-> permErr, err |-> NoErr]

\* a Connect that opens the channel without looking at permErr
AfterRetryIgnoresPermErr(err, permErr, conn, channelOk) ==
    IF err # NoErr THEN [ch |-> NoChannel, err |-> err, channelOn |-> <<>>]
    ELSE IF channelOk /\ conn # NoConn
         THEN [ch |-> conn, err |-> NoErr, channelOn |-> <<conn>>]
         ELSE [ch |-> NoChannel, err |-> [kind |-> "channel", at |-> 0],
               channelOn |-> <<conn>>]

\* Connect after retryFunc has returned err: (ch, err), and the connection
\* conn.Channel() was called on, if it was called
AfterRetry(err, permErr, conn, channelOk) ==
    IF err # NoErr THEN [ch |-> NoChannel, err |-> err, channelOn |-> <<>>]
    ELSE IF permErr # NoErr
         THEN [ch |-> NoChannel, err |-> permErr, channelOn |-> <<>>]
         ELSE IF channelOk /\ conn # NoConn
              THEN [ch |-> conn, err |-> NoErr, channelOn |-> <<conn>>]
              ELSE [ch |-> NoChannel, err |-> [kind |-> "channel", at |-> 0],
                    channelOn |-> <<conn>>]

\* Connect entered: permErr and conn declared, Retry about to call the callback
Entered ==
    [pc |-> "call", dials |-> <<>>, permErr |-> NoErr, conn |-> NoConn,
     err |-> NoErr, ret |-> [ch |-> NoChannel, err |-> NoErr, channelOn |-> <<>>]]

\* Retry calls the callback; a nil error ends the retrying
RetryCall ==
    /\ rb.pc = "call"
    /\ \E outcome \in DialOutcomes :
           LET r == Callback(outcome, Len(rb.dials) + 1, rb.permErr)
           IN rb' = [rb EXCEPT !.dials = Append(@, outcome),
                               !.conn = r.conn,
                               !.permErr = r.permErr,
                               !.err = r.err,
                               !.pc = IF r.err = NoErr THEN "retried" ELSE "failed"]
    /\ UNCHANGED <<dbVars, pf, fr>>

\* the callback failed and the interval passes within the time allowed
RetryAgain ==
    /\ rb.pc = "failed"
    /\ Len(rb.dials) < MaxAttempts
    /\ rb' = [rb EXCEPT !.pc = "call"]
    /\ UNCHANGED <<dbVars, pf, fr>>

\* the callback failed and the time allowed is over: Retry returns the error
RetryTimeout ==
    /\ rb.pc = "failed"
    /\ rb' = [rb EXCEPT !.pc = "retried"]
    /\ UNCHANGED <<dbVars, pf, fr>>

\* the rest of Connect
ConnectReturn ==
    /\ rb.pc = "retried"
    /\ \E channelOk \in BOOLEAN :
           rb' = [rb EXCEPT !.pc = "done",
                            !.ret = AfterRetry(rb.err, rb.permErr, rb.conn, channelOk)]
    /\ UNCHANGED <<dbVars, pf, fr>>

InitR ==
    /\ store = <<>>
    /\ last = NoCall
    /\ w = <<>>
    /\ c = <<>>
    /\ bi = <<>>
    /\ dbopt = Options
    /\ resp = <<>>
    /\ hist = <<>>
    /\ pf = <<>>
    /\ fr = <<>>
    /\ rb = Entered

NextR == RetryCall \/ RetryAgain \/ RetryTimeout \/ ConnectReturn

SpecR == InitR /\ [][NextR]_vars

(***************************************************************************)
(* FilterRef: the walk of a resource next to a reference resource          *)
(***************************************************************************)
\* a resource of the walk: userName (0 when unassigned) and the values of the
\* elements of the multi-valued emails
Resources == [userName : 0..MaxName, emails : SeqsUpTo(Names, MaxEmails)]

\* a property: the id of its attribute and its value (the values of its
\* elements for a multi-valued property, nothing when unassigned)
Prop(attr, value) == [attr |-> attr, value |-> value]

\* a nil property
NoProp == Prop("nil", <<>>)

\* prop.Matches(refProp)
PropMatches(prop, refProp) ==
    /\ refProp # NoProp
    /\ prop.attr = refProp.attr
    /\ IF prop.attr = "emails"
       THEN {prop.value[i] : i \in DOMAIN prop.value}
                = {refProp.value[i] : i \in DOMAIN refProp.value}
       ELSE prop.value = refProp.value

\* the single-valued property userName of a resource
UserNameProp(resource) ==
    Prop("userName", IF resource.userName = 0 THEN <<>> ELSE <<resource.userName>>)

\* an element of emails, and its sub-property value
ElemProp(v) == Prop("emails$elem", <<v>>)
ValueProp(v) == Prop("emails.value", <<v>>)

\* a walk that pairs the elements of the two resources by position
RefElemByPosition(ref, v, i) ==
    IF i <= Len(ref.emails) THEN ref.emails[i] ELSE 0

\* the element of ref's emails passed along with the i-th element (of value
\* v) of the resource: one that matches it, 0 when there is none
RefElem(ref, v, i) ==
    IF \E j \in DOMAIN ref.emails : PropMatches(ElemProp(v), ElemProp(ref.emails[j]))
    THEN ref.emails[CHOOSE j \in DOMAIN ref.emails :
                        /\ PropMatches(ElemProp(v), ElemProp(ref.emails[j]))
                        /\ \A k \in 1..(j - 1) :
                              ~PropMatches(ElemProp(v), ElemProp(ref.emails[k]))]
    ELSE 0

RECURSIVE ElemVisits(_, _, _)
\* the visits of the elements of emails from the i-th on, depth first
ElemVisits(resource, ref, i) ==
    IF i > Len(resource.emails) THEN <<>>
    ELSE LET v == resource.emails[i]
             r == RefElem(ref, v, i)
         IN <<[prop |-> ElemProp(v),
               refProp |-> IF r = 0 THEN NoProp ELSE ElemProp(r)],
              [prop |-> ValueProp(v),
               refProp |-> IF r = 0 THEN NoProp ELSE ValueProp(r)]>>
                \o ElemVisits(resource, ref, i + 1)

\* the properties of resource in the order of the walk, each with the
\* property of ref passed along with it
Visits(resource, ref) ==
    <<[prop |-> UserNameProp(resource), refProp |-> UserNameProp(ref)],
      [prop |-> Prop("emails", resource.emails),
       refProp |-> Prop("emails", ref.emails)]>>
        \o ElemVisits(resource, ref, 1)

\* the attributes a field filter may reject
FailAts == {"none", "userName", "emails.value"}

\* FilterRef with one field filter that supports every attribute and fails
\* at the attribute failAt: the calls of FieldRef made, and the error
FilterRef(resource, ref, failAt) ==
    LET v == Visits(resource, ref)
        fails == {i \in DOMAIN v : v[i].prop.attr = failAt}
    IN IF fails = {} THEN [calls |-> v, err |-> "nil"]
       ELSE LET first == CHOOSE i \in fails : \A j \in fails : i <= j
            IN [calls |-> SubSeq(v, 1, first), err |-> "filterError"]

DoFilterRef ==
    /\ fr.pc = "start"
    /\ LET r == FilterRef(fr.resource, fr.ref, fr.failAt)
       IN fr' = [fr EXCEPT !.pc = "done", !.calls = r.calls, !.err = r.err]
    /\ UNCHANGED <<dbVars, pf, rb>>

InitF ==
    /\ store = <<>>
    /\ last = NoCall
    /\ w = <<>>
    /\ c = <<>>
    /\ bi = <<>>
    /\ dbopt = Options
    /\ resp = <<>>
    /\ hist = <<>>
    /\ pf = <<>>
    /\ rb = <<>>
    /\ fr \in [pc : {"start"}, resource : Resources, ref : Resources,
               failAt : FailAts, calls : {<<>>}, err : {"nil"}]

NextF == DoFilterRef

SpecF == InitF /\ [][NextF]_vars

(***************************************************************************)
(* Sequences of calls on one id, with the last successful Replace or       *)
(* Delete of the id remembered                                             *)
(***************************************************************************)
\* the id the calls are made on, and the resources that carry it
WatchedId == 1
WatchedDocs == {d \in Docs : d.id = WatchedId}

\* no Replace or Delete has succeeded yet
NoMutation == [kind |-> "none", doc |-> NoDoc, old |-> 0, inserted |-> FALSE]

\* no call in progress
NoStep ==
    [op |-> "none", doc |-> NoDoc, ver |-> 0, fault |-> "none", err |-> "nil",
     out |-> <<>>]

\* a call is made: the collection takes its effect; m is the last successful
\* Replace or Delete after it, pm the one before it
Step(call, r, m) ==
    /\ store' = r.coll
    /\ hist' = [m |-> m, pm |-> hist.m,
                call |-> [call EXCEPT !.err = r.err, !.out = r.out]]
    /\ UNCHANGED <<last, w, c, bi, dbopt, resp, pf, rb, fr>>

StepInsert ==
    /\ hist.call = NoStep
    /\ \E resource \in WatchedDocs, fault \in Faults :
           Step([NoStep EXCEPT !.op = "Insert", !.doc = resource, !.fault = fault],
                Insert(fault, store, resource),
                [hist.m EXCEPT !.inserted = TRUE])

StepReplace ==
    /\ hist.call = NoStep
    /\ \E resource \in WatchedDocs, oldVersion \in Versions, fault \in Faults :
           LET r == Replace(fault, store, resource, oldVersion)
           IN Step([NoStep EXCEPT !.op = "Replace", !.doc = resource,
                                  !.ver = oldVersion, !.fault = fault],
                   r,
                   IF r.err = "nil"
                   THEN [kind |-> "Replace", doc |-> resource, old |-> oldVersion,
                         inserted |-> FALSE]
                   ELSE hist.m)

StepDelete ==
    /\ hist.call = NoStep
    /\ \E resource \in WatchedDocs, fault \in Faults :
           LET r == Delete(fault, store, resource)
           IN Step([NoStep EXCEPT !.op = "Delete", !.doc = resource, !.fault = fault],
                   r,
                   IF r.err = "nil"
                   THEN [kind |-> "Delete", doc |-> resource,
                         old |-> resource.version, inserted |-> FALSE]
                   ELSE hist.m)

StepGet ==
    /\ hist.call = NoStep
    /\ \E fault \in Faults :
           Step([NoStep EXCEPT !.op = "Get", !.doc = [NoDoc EXCEPT !.id = WatchedId],
                               !.fault = fault],
                Get(fault, store, dbopt, WatchedId, NoProjection),
                hist.m)

\* the caller takes the results of the call
StepReturn ==
    /\ hist.call # NoStep
    /\ hist' = [hist EXCEPT !.call = NoStep, !.pm = hist.m]
    /\ UNCHANGED <<store, last, w, c, bi, dbopt, resp, pf, rb, fr>>

InitH ==
    /\ store \in {<<>>, <<[id |-> 2, version |-> 1, uname |-> 1]>>}
    /\ last = NoCall
    /\ w = <<>>
    /\ c = <<>>
    /\ bi = <<>>
    /\ dbopt = Options
    /\ resp = <<>>
    /\ hist = [m |-> NoMutation, pm |-> NoMutation, call |-> NoStep]
    /\ pf = <<>>
    /\ rb = <<>>
    /\ fr = <<>>

NextH == StepInsert \/ StepReplace \/ StepDelete \/ StepGet \/ StepReturn

SpecH == InitH /\ [][NextH]_vars

(***************************************************************************)
(* mongoSort and Rabbit.Url applied to the sorts and arguments a caller    *)
(* may pass; text is a sequence of characters                              *)
(***************************************************************************)
\* the values a crud.SortOrder may hold: the three constants and another
SortOrders == {SortDefault, SortAsc, SortDesc, "sideways"}

\* the sorts mongoSort may be given
Sorts == [by : Paths, order : SortOrders]

\* the decimal digits
DigitChars == <<"0", "1", "2", "3", "4", "5", "6", "7", "8", "9">>

RECURSIVE FormatInt(_)
\* fmt.Sprintf("%d", n) for n >= 0
FormatInt(n) ==
    IF n < 10 THEN <<DigitChars[n + 1]>>
    ELSE FormatInt(n \div 10) \o <<DigitChars[(n % 10) + 1]>>

\* the arguments of a Rabbit
Rabbits ==
    [Username : {<<>>, <<"u">>}, Password : {<<>>, <<"p">>},
     Host : {<<>>, <<"h">>}, Port : (-1)..MaxPort,
     VHost : {<<>>, <<"v">>}, Options : {<<>>, <<"o">>}]

\* a Url that writes the password whether or not there is a user name
UrlPasswordWithoutUsername(arg) ==
    LET url1 == <<"a", "m", "q", "p", ":", "/", "/">>
        url2 == IF Len(arg.Username) > 0 \/ Len(arg.Password) > 0
                THEN url1 \o arg.Username
                        \o (IF Len(arg.Password) > 0
                            THEN <<":">> \o arg.Password ELSE <<>>)
                        \o <<"@">>
                ELSE url1
        url3 == url2 \o arg.Host
        url4 == IF arg.Port > 0 THEN url3 \o <<":">> \o FormatInt(arg.Port) ELSE url3
        url5 == IF Len(arg.VHost) > 0 THEN url4 \o <<"/">> \o arg.VHost ELSE url4
    IN IF Len(arg.Options) > 0 THEN url5 \o <<"?">> \o arg.Options ELSE url5

\* Rabbit.Url: url after each of its appends
Url(arg) ==
    LET url1 == <<"a", "m", "q", "p", ":", "/", "/">>
        url2 == IF Len(arg.Username) > 0
                THEN url1 \o arg.Username
                        \o (IF Len(arg.Password) > 0
                            THEN <<":">> \o arg.Password ELSE <<>>)
                        \o <<"@">>
                ELSE url1
        url3 == url2 \o arg.Host
        url4 == IF arg.Port > 0 THEN url3 \o <<":">> \o FormatInt(arg.Port) ELSE url3
        url5 == IF Len(arg.VHost) > 0 THEN url4 \o <<"/">> \o arg.VHost ELSE url4
    IN IF Len(arg.Options) > 0 THEN url5 \o <<"?">> \o arg.Options ELSE url5

\* the Rabbit of a run of mongoSort
NoRabbit ==
    [Username |-> <<>>, Password |-> <<>>, Host |-> <<>>, Port |-> 0,
     VHost |-> <<>>, Options |-> <<>>]

ApplyMongoSort ==
    /\ pf.pc = "input"
    /\ pf.fn = "mongoSort"
    /\ pf' = [pf EXCEPT !.pc = "done", !.srt = mongoSort(pf.sort)]
    /\ UNCHANGED <<dbVars, rb, fr>>

ApplyUrl ==
    /\ pf.pc = "input"
    /\ pf.fn = "Url"
    /\ pf' = [pf EXCEPT !.pc = "done", !.url = Url(pf.arg)]
    /\ UNCHANGED <<dbVars, rb, fr>>

InitS ==
    /\ store = <<>>
    /\ last = NoCall
    /\ w = <<>>
    /\ c = <<>>
    /\ bi = <<>>
    /\ dbopt = Options
    /\ resp = <<>>
    /\ hist = <<>>
    /\ rb = <<>>
    /\ fr = <<>>
    /\ pf \in [pc : {"input"}, fn : {"mongoSort"}, sort : Sorts,
               arg : {NoRabbit}, srt : {NoOpt}, url : {<<>>}]
              \cup
              [pc : {"input"}, fn : {"Url"}, sort : {NoSort},
               arg : Rabbits, srt : {NoOpt}, url : {<<>>}]

NextS == ApplyMongoSort \/ ApplyUrl

SpecS == InitS /\ [][NextS]_vars

(***************************************************************************)
(* Properties of the database calls                                        *)
(***************************************************************************)
\* a document of coll has this id and this version
HasIdVersion(coll, id, version) ==
    \E i \in 1..Len(coll) : coll[i].id = id /\ coll[i].version = version

\* a document of coll has this id
HasId(coll, id) == \E i \in 1..Len(coll) : coll[i].id = id

\* coll without its documents of this id
WithoutId(coll, id) == SelectSeq(coll, LAMBDA d : d.id # id)

\* C1: Replace succeeds only when the collection held a document with the
\* resource's id and meta.version = oldVersion; when the driver reports that
\* nothing matched (the version differs or the id is absent) the error is
\* preCondition, and no Replace ever ends in notFound.
C1_ReplacePrecondition ==
    last.op = "Replace" =>
        /\ last.err = "nil" => HasIdVersion(last.pre, last.doc.id, last.ver)
        /\ (last.fault = "none" /\ ~HasIdVersion(last.pre, last.doc.id, last.ver))
                => last.err = "preCondition"
        /\ last.err # "notFound"

\* a Replace of an id the collection does not hold ended in preCondition
C1_Witness ==
    /\ last.op = "Replace"
    /\ last.pre # <<>>
    /\ ~HasId(last.pre, last.doc.id)
    /\ last.err = "preCondition"

\* C2: Delete removes a document only when the collection held one with the
\* resource's id and version, and then removes exactly that one; when nothing
\* matched the error is preCondition, never notFound.
C2_DeletePrecondition ==
    last.op = "Delete" =>
        /\ store # last.pre => HasIdVersion(last.pre, last.doc.id, last.doc.version)
        /\ last.err = "nil" =>
              /\ HasIdVersion(last.pre, last.doc.id, last.doc.version)
              /\ store = WithoutId(last.pre, last.doc.id)
        /\ (last.fault = "none"
                /\ ~HasIdVersion(last.pre, last.doc.id, last.doc.version))
                => last.err = "preCondition"
        /\ last.err # "notFound"

\* a Delete with a version other than the stored one ended in preCondition
C2_Witness ==
    /\ last.op = "Delete"
    /\ HasId(last.pre, last.doc.id)
    /\ ~HasIdVersion(last.pre, last.doc.id, last.doc.version)
    /\ last.err = "preCondition"
    /\ Len(store) = 2

\* the version a Replace or Delete call matches on
CallVersion == IF last.op = "Replace" THEN last.ver ELSE last.doc.version

\* the last call was a Replace or Delete of a stored id with a version other
\* than the stored one
StaleCall ==
    /\ last.op \in {"Replace", "Delete"}
    /\ HasId(last.pre, last.doc.id)
    /\ ~HasIdVersion(last.pre, last.doc.id, CallVersion)

\* C3: a Replace or Delete with a stale version leaves every stored document
\* as it was, and ends in preCondition when the driver call completed.
C3_StaleLeavesStore ==
    StaleCall =>
        /\ store = last.pre
        /\ last.fault = "none" => last.err = "preCondition"

\* a stale Replace on a collection of two documents ended in preCondition
C3_Witness ==
    /\ StaleCall
    /\ last.op = "Replace"
    /\ Len(last.pre) = 2
    /\ last.err = "preCondition"

\* C4 (as claimed): an Insert whose id collides with a stored resource returns
\* a uniqueness error.
C4_InsertCollision ==
    (last.op = "Insert" /\ last.fault = "none" /\ HasId(last.pre, last.doc.id))
        => last.err = "uniqueness"

\* the document of coll with this id
DocOfId(coll, id) == coll[CHOOSE i \in 1..Len(coll) : coll[i].id = id]

\* C5: Get returns notFound when no stored document has the id, returns a
\* resource with a nil error only when one exists (and then that one), and
\* returns a failure of the driver as an error without a resource.
C5_GetNotFound ==
    last.op = "Get" =>
        /\ (last.fault = "none" /\ ~HasId(last.pre, last.doc.id))
                => (last.err = "notFound" /\ last.out = <<>>)
        /\ last.err = "nil" =>
              /\ HasId(last.pre, last.doc.id)
              /\ last.out = <<DocOfId(last.pre, last.doc.id)>>
        /\ last.fault # "none" => (last.err = last.fault /\ last.out = <<>>)
        /\ last.out # <<>> => last.err = "nil"
        /\ store = last.pre

\* a Get of an absent id on a non-empty collection returned notFound
C5_Witness ==
    /\ last.op = "Get"
    /\ last.pre # <<>>
    /\ ~HasId(last.pre, last.doc.id)
    /\ last.fault = "none"
    /\ last.err = "notFound"

\* C8 (as claimed): a call whose driver operation was aborted by the
\* cancellation of its context returns a non-nil error.
C8_CancelledIsError ==
    (last.op # "none" /\ last.fault = "cancelled") => last.err # "nil"

\* the elements of s at the 1-based positions startIndex..startIndex+count-1
Window(s, startIndex, count) ==
    LET idx == {p \in 1..Len(s) : startIndex <= p /\ p <= startIndex + count - 1}
        lo == IF startIndex < 1 THEN 1 ELSE startIndex
    IN [i \in 1..Cardinality(idx) |-> s[lo + i - 1]]

\* the matching documents in the order the call's sort asks for
SortedMatching ==
    Sorted(Matching(last.flt, last.pre),
           IF last.srt # NoSort THEN mongoSort(last.srt) ELSE NoOpt)

\* C9 (as claimed): a paginated Query returns at most count resources, those
\* at positions startIndex..startIndex+count-1 of the sorted result, for every
\* startIndex and count, count = 0 and startIndex <= 1 included.
C9_QueryWindow ==
    (last.op = "Query" /\ last.pag # NoPage /\ last.fault = "none"
        /\ last.flt.k # "invalid")
        => /\ Len(last.out) <= last.pag.count
           /\ last.out = Window(SortedMatching, last.pag.startIndex, last.pag.count)

(***************************************************************************)
(* Properties of concurrent writers and creators                           *)
(***************************************************************************)
\* both writers read the same resource at the same version before either
\* called Replace, and both Replace calls have returned
BothReplaced ==
    /\ \A p \in Writers : w[p].pc = "done" /\ w[p].seen = 0
    /\ w[1].read.id = w[2].read.id
    /\ w[1].read.version = w[2].read.version

\* what follows from one writer's success: the stored document is that
\* writer's resource, and a Replace the driver completed after it was refused
NoLostUpdate ==
    /\ ~(w[1].err = "nil" /\ w[2].err = "nil")
    /\ \A p, q \in Writers :
          (p # q /\ w[p].err = "nil") =>
              /\ HasId(store, w[p].new.id)
              /\ DocOfId(store, w[p].new.id) = w[p].new
              /\ (w[q].at > w[p].at /\ w[q].fault = "none")
                    => w[q].err = "preCondition"

\* C6 (as claimed): of two writers that read the same resource at version v
\* and each call Replace(newResource, v), at most one succeeds, the other is
\* refused with preCondition and the stored document is the successful
\* writer's, whatever the new resources are.
C6_AsClaimed == BothReplaced => NoLostUpdate

\* C6 (amended): the same, for writers whose new resources carry a
\* meta.version other than the version v they read.
C6_NoLostUpdate ==
    (BothReplaced /\ \A p \in Writers : w[p].new.version # w[p].read.version)
        => NoLostUpdate

\* two writers read the same version, the first Replace succeeded with a new
\* version and the second was refused with preCondition
C6_Witness ==
    /\ BothReplaced
    /\ \A p \in Writers : w[p].new.version # w[p].read.version
    /\ \E p, q \in Writers :
          /\ w[p].err = "nil" /\ w[p].at = 1
          /\ w[q].err = "preCondition" /\ w[q].at = 2
          /\ w[p].new # w[q].new

\* C7 (as claimed): of two Create requests with the same userName at most one
\* completes successfully and the other is rejected with uniqueness, and no
\* two stored resources ever share the userName.
C7_UniqueCreate ==
    /\ \A i, j \in 1..Len(store) : i # j => store[i].uname # store[j].uname
    /\ (/\ \A p \in Creators : c[p].pc = "done"
        /\ c[1].doc.uname = c[2].doc.uname)
          => /\ ~(c[1].res = "nil" /\ c[2].res = "nil")
             /\ \A p, q \in Creators :
                    (p # q /\ c[p].res = "nil") => c[q].res = "uniqueness"

(***************************************************************************)
(* Properties of buildIndex                                                *)
(***************************************************************************)
\* C10: every list of the index is sorted ascending by Order(), and filters
\* of equal Order() keep the relative order of the filters slice.
C10_SortedStable ==
    bi.pc = "built" =>
        \A id \in DOMAIN bi.result :
            LET l == bi.result[id]
            IN \A i, j \in 1..Len(l) :
                  i < j =>
                     /\ bi.filters[l[i]].order <= bi.filters[l[j]].order
                     /\ bi.filters[l[i]].order = bi.filters[l[j]].order
                            => l[i] < l[j]

\* an index was built in which three filters of one attribute, given out of
\* order and with a tie, were sorted
C10_Witness ==
    /\ bi.pc = "built"
    /\ \E id \in DOMAIN bi.result :
          LET l == bi.result[id]
          IN /\ Len(l) = 3
             /\ \E i \in 1..2 : l[i] > l[i + 1]
             /\ \E i \in 1..2 : bi.filters[l[i]].order = bi.filters[l[i + 1]].order

\* the filters (positions in the filters slice) that support attribute a
Supporting(a) == {i \in 1..Len(bi.filters) : a \in bi.filters[i].supports}

\* C11: the index has an entry for an attribute id exactly when an attribute
\* of that id is a derived attribute of a given resource type and some filter
\* supports it; the entry lists the filters supporting such an attribute, all
\* of them and each once.
C11_IndexEntries ==
    bi.pc = "built" =>
        /\ \A id \in AttrIds :
              id \in DOMAIN bi.result
                 <=> \E a \in DerivedAttributes(bi.rts) :
                        bi.attrId[a] = id /\ Supporting(a) # {}
        /\ \A id \in DOMAIN bi.result :
              LET l == bi.result[id]
              IN /\ \A i, j \in 1..Len(l) : i # j => l[i] # l[j]
                 /\ \E a \in DerivedAttributes(bi.rts) :
                        /\ bi.attrId[a] = id
                        /\ {l[i] : i \in 1..Len(l)} = Supporting(a)

\* an index was built that has an entry of three reordered filters and lacks
\* an entry for the id of a derived attribute that no filter supports
C11_Witness ==
    /\ bi.pc = "built"
    /\ \E a \in DerivedAttributes(bi.rts) :
          Supporting(a) = {} /\ bi.attrId[a] \notin DOMAIN bi.result
    /\ \E id \in DOMAIN bi.result :
          Len(bi.result[id]) = 3 /\ bi.result[id] # <<1, 2, 3>>

\* C12 (as claimed): the index built from given resource types and filters is
\* the same whatever order the intermediate maps are iterated in, also when
\* distinct attribute objects carry the same id.
C12_Deterministic ==
    bi.pc = "built" =>
        \A it \in Iterations(IndexKeys(bi.rts, bi.filters)) :
            buildIndex(bi.rts, bi.filters, bi.attrId, it) = bi.result

(***************************************************************************)
(* Properties of mongoProjection and mongoPathFor                          *)
(***************************************************************************)
\* one entry (path -> value) for every path of paths that resolves
Resolved(paths, value) ==
    LET r == SelectSeq(paths, LAMBDA q : mongoPathFor(q) # "")
    IN [i \in 1..Len(r) |-> [key |-> mongoPathFor(r[i]), value |-> value]]

\* C13 (as claimed): mongoProjection yields (path -> 1) for every resolving
\* path of Attributes when that list is non-empty, otherwise (path -> 0) for
\* every resolving path of ExcludedAttributes, and nothing when both lists
\* are empty.
C13_ProjectionEntries ==
    (pf # <<>> /\ pf.pc = "done" /\ pf.fn = "mongoProjection") =>
        pf.bson = IF pf.projection.attributes # <<>>
                  THEN Resolved(pf.projection.attributes, 1)
                  ELSE IF pf.projection.excluded # <<>>
                       THEN Resolved(pf.projection.excluded, 0)
                       ELSE <<>>

\* the steps of a path after a leading core schema id
Steps(path) == IF path # <<>> /\ Head(path) = SchemaId THEN Tail(path) ELSE path

RECURSIVE Dotted(_)
\* the steps joined by dots
Dotted(steps) ==
    IF steps = <<>> THEN ""
    ELSE IF Len(steps) = 1 THEN steps[1]
    ELSE steps[1] \o "." \o Dotted(Tail(steps))

\* every step names a sub-attribute of the attribute the steps before reach
Reaches(path) ==
    /\ Compiles(path)
    /\ Steps(path) # <<>>
    /\ \A k \in 1..Len(Steps(path)) :
          LET parent == Dotted(SubSeq(Steps(path), 1, k - 1))
          IN parent \in DOMAIN SubAttributes
                /\ Steps(path)[k] \in SubAttributes[parent]

\* C15: mongoPathFor returns the registered alias of the attribute the steps
\* reach from the super attribute (a leading core schema id skipped), or the
\* attribute's own path when none is registered, and the empty string when
\* the path does not compile, a step names no sub-attribute or the path is
\* only the core schema id.
C15_MongoPathFor ==
    (pf # <<>> /\ pf.pc = "done" /\ pf.fn = "mongoPathFor") =>
        pf.mp = IF ~Reaches(pf.path) THEN ""
                ELSE IF Dotted(Steps(pf.path)) \in DOMAIN metadataHub
                     THEN metadataHub[Dotted(Steps(pf.path))]
                     ELSE Dotted(Steps(pf.path))

\* the path of a nested attribute, with the schema id in front, resolved to
\* its registered alias
C15_Witness ==
    /\ pf # <<>> /\ pf.pc = "done" /\ pf.fn = "mongoPathFor"
    /\ pf.path = <<SchemaId, "groups", "$ref">>
    /\ pf.mp = "groups.ref"

(***************************************************************************)
(* Properties of the reads                                                 *)
(***************************************************************************)
\* a Get or a Query has been made
ReadDone == resp # <<>> /\ resp.op \in {"Get", "Query"}

\* the documents of the collection before the read that the read selects
Selected ==
    IF resp.op = "Get" THEN Matching(IdFilter(resp.id), resp.pre)
    ELSE Matching(resp.flt, resp.pre)

\* the read got as far as its call of the backend
BackendCalled == ReadDone /\ mongoFilter(resp.flt).err = "nil"

\* C14: in a Get or Query that calls the backend, a database built with
\* IgnoreProjection sets no projection on the find options, whatever
\* projection the caller passes, and a successful read returns the stored
\* documents whole; a database built without it passes the translation of
\* every non-nil projection.
C14_IgnoreProjection ==
    BackendCalled =>
        /\ dbopt.ignoreProjection =>
              /\ resp.proj = NoBson
              /\ resp.err = "nil" =>
                    \A i \in 1..Len(resp.out) : resp.out[i] = Selected[i]
        /\ (~dbopt.ignoreProjection /\ resp.projection # NoProjection) =>
              /\ resp.proj = mongoProjection(resp.projection)
              /\ resp.proj # NoBson

\* both reads made with an include list on a database that ignores
\* projections, returning a whole document
C14_Witness ==
    /\ ReadDone
    /\ dbopt.ignoreProjection
    /\ resp.projection # NoProjection
    /\ resp.projection.attributes = <<<<"userName">>>>
    /\ resp.op = "Query"
    /\ resp.err = "nil"
    /\ Len(resp.out) > 0
    /\ resp.out[1].id # 0

\* C17: GetResource returns the error of Database.Get with a nil response
\* when the Get fails (notFound for an absent id), and otherwise the resource
\* the Get returned with that resource's Location() and Version(); the
\* collection is left as it was.
C17_GetResource ==
    (resp # <<>> /\ resp.op = "GetResource") =>
        LET r == Get(resp.fault, resp.pre, dbopt, resp.id, resp.projection)
        IN /\ store = resp.pre
           /\ resp.err = r.err
           /\ r.err # "nil" => resp.response = NoResponse
           /\ (resp.fault = "none" /\ ~HasId(resp.pre, resp.id)) =>
                 resp.err = "notFound"
           /\ r.err = "nil" =>
                 /\ resp.response.resource = r.out[1]
                 /\ resp.response.location = Location(r.out[1])
                 /\ resp.response.version = Version(r.out[1])

\* GetResource answered notFound for an absent id of a non-empty collection
C17_Witness ==
    /\ resp # <<>>
    /\ resp.op = "GetResource"
    /\ resp.err = "notFound"
    /\ resp.response = NoResponse
    /\ Len(store) > 0

(***************************************************************************)
(* Properties of Rabbit.Connect                                            *)
(***************************************************************************)
\* the dial attempts that failed in a way that is retried
Retryable == {"amqpRecoverable", "other"}

\* C18: every dial attempt but the last failed with a recoverable amqp error
\* or a non-amqp error, and retrying ends after such a failure only with an
\* error; after an amqp error without Recover no further attempt is made and
\* Connect returns that error and opens no channel; a channel is returned
\* only when the last attempt succeeded.
C18_RetryUntilPermanent ==
    rb # <<>> =>
        /\ \A i \in 1..(Len(rb.dials) - 1) : rb.dials[i] \in Retryable
        /\ (rb.pc \in {"retried", "done"} /\ rb.dials[Len(rb.dials)] \in Retryable) =>
              rb.err # NoErr
        /\ (rb.pc = "done" /\ rb.dials[Len(rb.dials)] = "amqpPermanent") =>
              /\ rb.ret.err = [kind |-> "amqpPermanent", at |-> Len(rb.dials)]
              /\ rb.ret.ch = NoChannel
              /\ rb.ret.channelOn = <<>>
        /\ (rb.pc = "done" /\ rb.ret.ch # NoChannel) =>
              rb.dials[Len(rb.dials)] = "ok"

\* Connect returned the permanent error met at the third attempt, after two
\* failures that were retried
C18_Witness ==
    /\ rb # <<>>
    /\ rb.pc = "done"
    /\ rb.dials = <<"other", "amqpRecoverable", "amqpPermanent">>
    /\ rb.ret.err = [kind |-> "amqpPermanent", at |-> 3]

\* C19: conn.Channel() is called only on the connection the last dial attempt
\* returned, which is not nil; Connect never returns a nil channel with a nil
\* error; and once a permanent error is recorded it is what Connect returns.
C19_ChannelOnLastConn ==
    (rb # <<>> /\ rb.pc = "done") =>
        /\ rb.ret.channelOn # <<>> =>
              /\ rb.ret.channelOn[1] # NoConn
              /\ rb.ret.channelOn[1] = Dial(rb.dials[Len(rb.dials)], Len(rb.dials)).conn
        /\ ~(rb.ret.ch = NoChannel /\ rb.ret.err = NoErr)
        /\ rb.permErr # NoErr =>
              (rb.ret.err = rb.permErr /\ rb.ret.ch = NoChannel)

\* the channel was opened on the connection of the second attempt
C19_Witness ==
    /\ rb # <<>>
    /\ rb.pc = "done"
    /\ rb.dials = <<"amqpRecoverable", "ok">>
    /\ rb.ret.channelOn = <<2>>
    /\ rb.ret.ch # NoChannel

(***************************************************************************)
(* Properties of FilterRef                                                 *)
(***************************************************************************)
\* the values of the elements of a resource's emails
EmailSet(resource) == {resource.emails[i] : i \in DOMAIN resource.emails}

StepVersion == IF hist.call.op = "Replace" THEN hist.call.ver ELSE hist.call.doc.version

\* C20: in any sequence of Insert, Replace, Delete and Get calls on one id,
\* for a call the driver completes: a Get whose last successful Replace or
\* Delete before it is a Delete, with no Insert since, returns notFound; a
\* Get whose last one is a Replace returns the replacing resource; and a
\* Replace or Delete that uses the version which that Replace matched and
\* changed returns preCondition.
C20_Sequences ==
    (hist # <<>> /\ hist.call.op # "none" /\ hist.call.fault = "none") =>
        /\ (hist.call.op = "Get" /\ hist.pm.kind = "Delete" /\ ~hist.pm.inserted) =>
              (hist.call.err = "notFound" /\ hist.call.out = <<>>)
        /\ (hist.call.op = "Get" /\ hist.pm.kind = "Replace") =>
              (hist.call.err = "nil" /\ hist.call.out = <<hist.pm.doc>>)
        /\ (hist.call.op \in {"Replace", "Delete"}
                /\ hist.pm.kind = "Replace"
                /\ hist.pm.old # hist.pm.doc.version
                /\ StepVersion = hist.pm.old) =>
              (hist.call.err = "preCondition"
                  /\ HasIdVersion(store, WatchedId, hist.pm.doc.version))

\* a Get after a Delete that followed a Replace returned notFound
C20_Witness ==
    /\ hist # <<>>
    /\ hist.call.op = "Get"
    /\ hist.call.fault = "none"
    /\ hist.pm.kind = "Delete"
    /\ ~hist.pm.inserted
    /\ hist.pm.old = 2
    /\ hist.call.err = "notFound"

(***************************************************************************)
(* Properties of mongoSort and Rabbit.Url                                  *)
(***************************************************************************)
\* the persistence path of a path that reaches an attribute
PersistencePath(path) ==
    IF Dotted(Steps(path)) \in DOMAIN metadataHub
    THEN metadataHub[Dotted(Steps(path))]
    ELSE Dotted(Steps(path))

\* C21: mongoSort sorts on the persistence path of sort.By when By is
\* non-empty and resolves, and on "_id" otherwise; the direction is 1 for the
\* orders ascending and default and -1 for descending; with any other order
\* it panics and returns nothing.
C21_MongoSort ==
    (pf # <<>> /\ pf.pc = "done" /\ pf.fn = "mongoSort") =>
        IF pf.sort.order \in {SortAsc, SortDefault, SortDesc}
        THEN /\ pf.srt.key = IF pf.sort.by # <<>> /\ Reaches(pf.sort.by)
                             THEN PersistencePath(pf.sort.by) ELSE "_id"
             /\ pf.srt.dir = IF pf.sort.order = SortDesc THEN -1 ELSE 1
        ELSE pf.srt = [key |-> "panic", dir |-> 0]

\* a descending sort by an attribute with a registered alias, named with the
\* schema id in front
C21_Witness ==
    /\ pf # <<>> /\ pf.pc = "done" /\ pf.fn = "mongoSort"
    /\ pf.sort = [by |-> <<SchemaId, "groups", "$ref">>, order |-> SortDesc]
    /\ pf.srt = [key |-> "groups.ref", dir |-> -1]

RECURSIVE ParseInt(_)
\* the number a sequence of decimal digits denotes
ParseInt(digits) ==
    IF digits = <<>> THEN 0
    ELSE 10 * ParseInt(SubSeq(digits, 1, Len(digits) - 1))
            + (CHOOSE d \in 0..9 : DigitChars[d + 1] = digits[Len(digits)])

\* what precedes the port in the text of a Url, and what follows it
BeforePort(arg) ==
    <<"a", "m", "q", "p", ":", "/", "/">>
        \o (IF arg.Username = <<>> THEN <<>>
            ELSE arg.Username
                    \o (IF arg.Password = <<>> THEN <<>> ELSE <<":">> \o arg.Password)
                    \o <<"@">>)
        \o arg.Host
AfterPort(arg) ==
    (IF arg.VHost = <<>> THEN <<>> ELSE <<"/">> \o arg.VHost)
        \o (IF arg.Options = <<>> THEN <<>> ELSE <<"?">> \o arg.Options)

\* C22: the text of Url() is "amqp://", then "user[:password]@" exactly when
\* Username is non-empty, then the host, then ":" and the decimal port
\* exactly when Port > 0, then "/vhost" and "?options" exactly when they are
\* non-empty.
C22_Url ==
    (pf # <<>> /\ pf.pc = "done" /\ pf.fn = "Url") =>
        LET u == pf.url
            b == BeforePort(pf.arg)
            a == AfterPort(pf.arg)
            port == SubSeq(u, Len(b) + 1, Len(u) - Len(a))
        IN /\ Len(u) >= Len(b) + Len(a)
           /\ SubSeq(u, 1, Len(b)) = b
           /\ SubSeq(u, Len(u) - Len(a) + 1, Len(u)) = a
           /\ IF pf.arg.Port > 0
              THEN /\ Len(port) >= 2
                   /\ port[1] = ":"
                   /\ \A i \in 2..Len(port) :
                         \E d \in 0..9 : DigitChars[d + 1] = port[i]
                   /\ ParseInt(Tail(port)) = pf.arg.Port
              ELSE port = <<>>

\* a Url with every part present and a port of two digits
C22_Witness ==
    /\ pf # <<>> /\ pf.pc = "done" /\ pf.fn = "Url"
    /\ pf.arg.Port = 10
    /\ pf.url = <<"a", "m", "q", "p", ":", "/", "/", "u", ":", "p", "@", "h",
                  ":", "1", "0", "/", "v", "?", "o">>

====
